---- MODULE Spec2Model ----
(***************************************************************************)
(* Model of src/acktest/k8s/condition.py: the condition assertion helpers  *)
(* of the ACK test library.  A test thread calls one of the five assertion *)
(* functions against a resource whose status conditions are read through   *)
(* resource.get_resource_condition; a controller may rewrite the "Ready"   *)
(* condition of the resource while a call is in progress (SpecCtl).        *)
(*                                                                         *)
(* Python values are tagged records: [ty |-> "NoneType"], [ty |-> "bool",  *)
(* b |-> ...], [ty |-> "str", s |-> ...] for short strings compared only   *)
(* for equality, and [ty |-> "str", chars |-> ...] for the message text,   *)
(* a sequence of characters, on which `in` is the substring test.          *)
(***************************************************************************)
EXTENDS Integers, Sequences, FiniteSets, TLC

(* ----------------------------- bounds ---------------------------------- *)
MaxMsgLen == 2      \* longest condition message, in characters
MaxExpLen == 1      \* longest expected_message argument, in characters
MaxUpdates == 1     \* controller rewrites of "Ready" during one call

Alphabet == {"a", "b"}

(* ---------------------------- constants -------------------------------- *)
CONDITION_TYPE_READY == "Ready"
CONDITION_TYPE_RESOURCE_SYNCED == "ACK.ResourceSynced"
TERMINAL_REASON == "Terminal error, the custom resource Spec needs to be updated before any further sync can occur"

CondTypes == {CONDITION_TYPE_READY, CONDITION_TYPE_RESOURCE_SYNCED}

(* -------------------------- Python values ------------------------------ *)
None == [ty |-> "NoneType"]
PyBool(b) == [ty |-> "bool", b |-> b]
PyString(s) == [ty |-> "str", s |-> s]
PyText(cs) == [ty |-> "str", chars |-> cs]

\* str(x) of Python, for the values a status field can hold
PyStr_NoneFalsy(x) ==
    CASE x.ty = "NoneType" -> "False"
      [] x.ty = "bool"     -> IF x.b THEN "True" ELSE "False"
      [] x.ty = "str"      -> x.s

PyStr(x) ==
    CASE x.ty = "NoneType" -> "None"
      [] x.ty = "bool"     -> IF x.b THEN "True" ELSE "False"
      [] x.ty = "str"      -> x.s

\* all character sequences of length at most n
Texts(n) == UNION {[1..k -> Alphabet] : k \in 0..n}

\* Python's `s in m` on two strings: s occurs as a contiguous substring of m
Contains_PrefixOnly(s, m) ==
    /\ Len(s) <= Len(m)
    /\ SubSeq(m, 1, Len(s)) = s

Contains(s, m) ==
    \E i \in 0..(Len(m) - Len(s)) : SubSeq(m, i + 1, i + Len(s)) = s

(* ------------------- what the accessor can return ---------------------- *)
StatusValues == {None, PyString("True"), PyString("False"), PyString("Unknown"),
                 PyBool(TRUE), PyBool(FALSE)}
ReasonValues == {None, PyString(TERMINAL_REASON), PyString("Other")}
MessageValues == {None} \cup {PyText(cs) : cs \in Texts(MaxMsgLen)}

\* a condition mapping; a field that is None stands for a missing key,
\* which dict.get(key, None) does not tell apart from a key holding None
Conditions == [status : StatusValues, reason : ReasonValues, message : MessageValues]

\* conditions of a type the helper only ever reads the status of
StatusOnlyConditions == [status : StatusValues, reason : {None}, message : {None}]

(* ------------------------------ state ---------------------------------- *)
VARIABLES
    live,               \* the resource's conditions, by type (None: absent)
    pc,                 \* source line the test thread is at, "idle" or "done"
    stack,              \* call stack of the test thread, outermost first
    ars_status,         \* assert_ready_status: cond_status_match
    cond_type_match,    \* assert_type_status: cond_type_match
    cond_status_match,  \* assert_type_status: cond_status_match
    cond,               \* assert_type_status: cond
    expected_message,   \* assert_terminal: expected_message
    tcond,              \* assert_terminal: cond
    outcome,            \* how the call ended ("" while it runs)
    failmsg,            \* values interpolated into the pytest.fail message
    log,                \* accessor reads and field checks done by the call
    updates,            \* controller rewrites during the call
    called              \* the assertion function the test called

vars == <<live, pc, stack, ars_status, cond_type_match, cond_status_match, cond,
          expected_message, tcond, outcome, failmsg, log, updates, called>>

locals == <<ars_status, cond_type_match, cond_status_match, cond,
            expected_message, tcond>>

Read(t) == [op |-> "get_resource_condition", arg |-> t]
Check(f) == [op |-> "check", arg |-> f]

Failures == {"ConditionNotFound", "StatusMismatch", "ReasonMismatch", "MessageMismatch"}
Exceptions == {"AttributeError", "TypeError"}

\* the f-string arguments of each pytest.fail message, in order
NotFoundMsg == <<"cond_type_match", "ref">>
StatusMismatchMsg_NoActual == <<"cond_type_match", "cond_status_match">>
StatusMismatchMsg == <<"cond_type_match", "cond_status_match", "cond_status">>
ReasonMismatchMsg == <<"TERMINAL_REASON", "reason">>
MessageMismatchMsg == <<"expected_message", "message">>

TypeOK ==
    /\ live \in [CondTypes -> Conditions \cup {None}]
    /\ pc \in {"idle", "done", "L59", "L60", "L65", "L95", "L116", "L137",
               "L162", "L163", "L165", "L171"}
    /\ stack \in Seq({"assert_type_status", "assert_ready_status", "assert_ready",
                      "assert_not_ready", "assert_terminal"})
    /\ ars_status \in BOOLEAN
    /\ cond_type_match \in CondTypes
    /\ cond_status_match \in BOOLEAN
    /\ cond \in Conditions \cup {None}
    /\ expected_message \in Texts(MaxExpLen)
    /\ tcond \in Conditions \cup {None}
    /\ outcome \in {"", "Returned"} \cup Failures \cup Exceptions
    /\ failmsg \in Seq(STRING)
    /\ log \in Seq([op : {"get_resource_condition", "check"}, arg : STRING])
    /\ updates \in 0..MaxUpdates
    /\ called \in {"", "assert_type_status", "assert_ready_status", "assert_ready",
                   "assert_not_ready", "assert_terminal"}

(* ----------------------------- initial --------------------------------- *)
NoLocals ==
    /\ ars_status = TRUE
    /\ cond_type_match = CONDITION_TYPE_RESOURCE_SYNCED
    /\ cond_status_match = TRUE
    /\ cond = None
    /\ expected_message = <<>>
    /\ tcond = None

Idle ==
    /\ pc = "idle"
    /\ stack = <<>>
    /\ NoLocals
    /\ outcome = ""
    /\ failmsg = <<>>
    /\ log = <<>>
    /\ updates = 0
    /\ called = ""

Init ==
    /\ live \in [CondTypes -> Conditions \cup {None}]
    /\ live[CONDITION_TYPE_RESOURCE_SYNCED] \in StatusOnlyConditions \cup {None}
    /\ Idle

(* ------------------------- ending a call ------------------------------- *)
\* pytest.fail(msg): the Failed exception unwinds the whole call stack
Fail(kind, msg) ==
    /\ outcome' = kind
    /\ failmsg' = msg
    /\ pc' = "done"
    /\ stack' = <<>>

\* an exception other than pytest's unwinds the whole call stack as well
Raise(exc) ==
    /\ outcome' = exc
    /\ failmsg' = <<>>
    /\ pc' = "done"
    /\ stack' = <<>>

\* the outermost function returns to the test
Finish ==
    /\ outcome' = "Returned"
    /\ failmsg' = <<>>
    /\ pc' = "done"
    /\ stack' = <<>>

(* ------------------------- the test thread ----------------------------- *)
CallTypeStatus(t, b) ==
    /\ pc = "idle"
    /\ stack' = <<"assert_type_status">>
    /\ called' = "assert_type_status"
    /\ cond_type_match' = t
    /\ cond_status_match' = b
    /\ pc' = "L59"
    /\ UNCHANGED <<live, ars_status, cond, expected_message, tcond, outcome,
                   failmsg, log, updates>>

CallReadyStatus(b) ==
    /\ pc = "idle"
    /\ stack' = <<"assert_ready_status">>
    /\ called' = "assert_ready_status"
    /\ ars_status' = b
    /\ pc' = "L95"
    /\ UNCHANGED <<live, cond_type_match, cond_status_match, cond,
                   expected_message, tcond, outcome, failmsg, log, updates>>

CallReady ==
    /\ pc = "idle"
    /\ stack' = <<"assert_ready">>
    /\ called' = "assert_ready"
    /\ pc' = "L116"
    /\ UNCHANGED <<live, locals, outcome, failmsg, log, updates>>

CallNotReady ==
    /\ pc = "idle"
    /\ stack' = <<"assert_not_ready">>
    /\ called' = "assert_not_ready"
    /\ pc' = "L137"
    /\ UNCHANGED <<live, locals, outcome, failmsg, log, updates>>

CallTerminal(s) ==
    /\ pc = "idle"
    /\ stack' = <<"assert_terminal">>
    /\ called' = "assert_terminal"
    /\ expected_message' = s
    /\ pc' = "L162"
    /\ UNCHANGED <<live, ars_status, cond_type_match, cond_status_match, cond,
                   tcond, outcome, failmsg, log, updates>>

\* assert_ready: return assert_ready_status(ref, True)
L116 ==
    /\ pc = "L116"
    /\ stack' = Append(stack, "assert_ready_status")
    /\ ars_status' = TRUE
    /\ pc' = "L95"
    /\ UNCHANGED <<live, cond_type_match, cond_status_match, cond,
                   expected_message, tcond, outcome, failmsg, log, updates>>
    /\ UNCHANGED called

\* assert_not_ready: return assert_ready_status(ref, False)
L137_PassesTrue ==
    /\ pc = "L137"
    /\ stack' = Append(stack, "assert_ready_status")
    /\ ars_status' = TRUE
    /\ pc' = "L95"
    /\ UNCHANGED <<live, cond_type_match, cond_status_match, cond,
                   expected_message, tcond, outcome, failmsg, log, updates>>
    /\ UNCHANGED called

L137 ==
    /\ pc = "L137"
    /\ stack' = Append(stack, "assert_ready_status")
    /\ ars_status' = FALSE
    /\ pc' = "L95"
    /\ UNCHANGED <<live, cond_type_match, cond_status_match, cond,
                   expected_message, tcond, outcome, failmsg, log, updates>>
    /\ UNCHANGED called

\* assert_ready_status: assert_type_status(ref, "Ready", cond_status_match)
L95 ==
    /\ pc = "L95"
    /\ stack' = Append(stack, "assert_type_status")
    /\ cond_type_match' = "Ready"
    /\ cond_status_match' = ars_status
    /\ pc' = "L59"
    /\ UNCHANGED <<live, ars_status, cond, expected_message, tcond, outcome,
                   failmsg, log, updates>>
    /\ UNCHANGED called

\* assert_terminal: assert_type_status(ref, "Ready", False)
L162 ==
    /\ pc = "L162"
    /\ stack' = Append(stack, "assert_type_status")
    /\ cond_type_match' = "Ready"
    /\ cond_status_match' = FALSE
    /\ pc' = "L59"
    /\ UNCHANGED <<live, ars_status, cond, expected_message, tcond, outcome,
                   failmsg, log, updates>>
    /\ UNCHANGED called

\* cond = resource.get_resource_condition(ref, cond_type_match)
L59 ==
    /\ pc = "L59"
    /\ cond' = live[cond_type_match]
    /\ log' = Append(log, Read(cond_type_match))
    /\ pc' = "L60"
    /\ UNCHANGED <<live, stack, ars_status, cond_type_match, cond_status_match,
                   expected_message, tcond, outcome, failmsg, updates>>
    /\ UNCHANGED called

\* if cond is None: pytest.fail(...)
L60_StatusMismatch ==
    /\ pc = "L60"
    /\ log' = Append(log, Check("exists"))
    /\ IF cond = None
         THEN Fail("StatusMismatch", StatusMismatchMsg)
         ELSE /\ pc' = "L65"
              /\ UNCHANGED <<stack, outcome, failmsg>>
    /\ UNCHANGED <<live, locals, updates>>
    /\ UNCHANGED called

L60 ==
    /\ pc = "L60"
    /\ log' = Append(log, Check("exists"))
    /\ IF cond = None
         THEN Fail("ConditionNotFound", NotFoundMsg)
         ELSE /\ pc' = "L65"
              /\ UNCHANGED <<stack, outcome, failmsg>>
    /\ UNCHANGED <<live, locals, updates>>
    /\ UNCHANGED called

\* cond_status = cond.get('status', None); compare the string forms; the
\* function then returns to its caller: assert_terminal goes on at line 163,
\* the other callers return at once
L65 ==
    /\ pc = "L65"
    /\ log' = Append(log, Check("status"))
    /\ IF PyStr(cond.status) # PyStr(PyBool(cond_status_match))
         THEN Fail("StatusMismatch", StatusMismatchMsg)
         ELSE IF stack[1] = "assert_terminal"
                THEN /\ stack' = <<"assert_terminal">>
                     /\ pc' = "L163"
                     /\ UNCHANGED <<outcome, failmsg>>
                ELSE Finish
    /\ UNCHANGED <<live, locals, updates>>
    /\ UNCHANGED called

\* cond = resource.get_resource_condition(ref, "Ready")
L163_ReusesCond ==
    /\ pc = "L163"
    /\ tcond' = cond
    /\ pc' = "L165"
    /\ UNCHANGED <<live, stack, ars_status, cond_type_match, cond_status_match,
                   cond, expected_message, outcome, failmsg, log, updates>>
    /\ UNCHANGED called

L163 ==
    /\ pc = "L163"
    /\ tcond' = live["Ready"]
    /\ log' = Append(log, Read("Ready"))
    /\ pc' = "L165"
    /\ UNCHANGED <<live, stack, ars_status, cond_type_match, cond_status_match,
                   cond, expected_message, outcome, failmsg, updates>>
    /\ UNCHANGED called

\* reason = cond.get('reason', None): None has no attribute get;
\* if reason != TERMINAL_REASON: pytest.fail(...)
L165_NoFail ==
    /\ pc = "L165"
    /\ IF tcond = None
         THEN Raise("AttributeError") /\ UNCHANGED log
         ELSE /\ log' = Append(log, Check("reason"))
              /\ pc' = "L171"
              /\ UNCHANGED <<stack, outcome, failmsg>>
    /\ UNCHANGED <<live, locals, updates>>
    /\ UNCHANGED called

L165 ==
    /\ pc = "L165"
    /\ IF tcond = None
         THEN Raise("AttributeError") /\ UNCHANGED log
         ELSE /\ log' = Append(log, Check("reason"))
              /\ IF tcond.reason # PyString(TERMINAL_REASON)
                   THEN Fail("ReasonMismatch", ReasonMismatchMsg)
                   ELSE /\ pc' = "L171"
                        /\ UNCHANGED <<stack, outcome, failmsg>>
    /\ UNCHANGED <<live, locals, updates>>
    /\ UNCHANGED called

\* message = cond.get('message', None); `expected_message not in None` is a
\* TypeError; if expected_message not in message: pytest.fail(...)
L171 ==
    /\ pc = "L171"
    /\ log' = Append(log, Check("message"))
    /\ IF tcond.message = None
         THEN Raise("TypeError")
         ELSE IF ~Contains(expected_message, tcond.message.chars)
                THEN Fail("MessageMismatch", MessageMismatchMsg)
                ELSE Finish
    /\ UNCHANGED <<live, locals, updates>>
    /\ UNCHANGED called

\* the test goes on to its next assertion; nothing of the call is kept
Reset ==
    /\ pc = "done"
    /\ pc' = "idle"
    /\ stack' = <<>>
    /\ ars_status' = TRUE
    /\ cond_type_match' = CONDITION_TYPE_RESOURCE_SYNCED
    /\ cond_status_match' = TRUE
    /\ cond' = None
    /\ expected_message' = <<>>
    /\ tcond' = None
    /\ outcome' = ""
    /\ failmsg' = <<>>
    /\ log' = <<>>
    /\ updates' = 0
    /\ called' = ""
    /\ UNCHANGED live

(* --------------------------- the controller ---------------------------- *)
\* the controller under test rewrites (or removes) the "Ready" condition
ControllerUpdate(c) ==
    /\ pc \notin {"idle", "done"}
    /\ updates < MaxUpdates
    /\ c # live["Ready"]
    /\ live' = [live EXCEPT !["Ready"] = c]
    /\ updates' = updates + 1
    /\ UNCHANGED <<pc, stack, locals, outcome, failmsg, log>>
    /\ UNCHANGED called

(* -------------------------- specifications ----------------------------- *)

TestStep ==
    \/ \E t \in CondTypes, b \in BOOLEAN : CallTypeStatus(t, b)
    \/ \E b \in BOOLEAN : CallReadyStatus(b)
    \/ CallReady
    \/ CallNotReady
    \/ \E s \in Texts(MaxExpLen) : CallTerminal(s)
    \/ L116
    \/ L137
    \/ L95
    \/ L162
    \/ L59
    \/ L60
    \/ L65
    \/ L163
    \/ L165
    \/ L171
    \/ Reset

\* the resource is quiescent while the assertions run
Next == TestStep

Spec == Init /\ [][Next]_vars

\* the controller is still reconciling while the assertions run
InitCtl ==
    /\ Init
    /\ live[CONDITION_TYPE_RESOURCE_SYNCED] = None

NextCtl ==
    \/ TestStep
    \/ \E c \in Conditions \cup {None} : ControllerUpdate(c)

SpecCtl == InitCtl /\ [][NextCtl]_vars

(* ------------------- vocabulary of the properties ---------------------- *)
Done == pc = "done"

Range(q) == {q[i] : i \in DOMAIN q}

NumReads == Cardinality({i \in DOMAIN log : log[i].op = "get_resource_condition"})

\* the status values whose string form is that of the boolean b
StatusIs(st, b) ==
    IF b THEN st \in {PyString("True"), PyBool(TRUE)}
         ELSE st \in {PyString("False"), PyBool(FALSE)}

\* m = pre + s + post for some strings pre and post
IsSubstring(s, m) ==
    \E pre \in Texts(Len(m)), post \in Texts(Len(m)) : pre \o s \o post = m

\* condition c is a terminal "Ready" condition whose message contains s
TerminalHolds(c, s) ==
    /\ c # None
    /\ StatusIs(c.status, FALSE)
    /\ c.reason = PyString(TERMINAL_REASON)
    /\ c.message # None
    /\ IsSubstring(s, c.message.chars)

\* what assert_type_status is specified to do on accessor result c
TypeStatusOutcome(c, b) ==
    IF c = None THEN "ConditionNotFound"
    ELSE IF StatusIs(c.status, b) THEN "Returned" ELSE "StatusMismatch"

TypeStatusLog(t, c) ==
    IF c = None THEN <<Read(t), Check("exists")>>
    ELSE <<Read(t), Check("exists"), Check("status")>>

\* the reads and checks of assert_terminal, in order
TerminalOrder ==
    <<Read("Ready"), Check("exists"), Check("status"),
      Read("Ready"), Check("reason"), Check("message")>>

\* position in TerminalOrder of the first check that c fails, 0 if none
FirstFailing(c, s) ==
    IF c = None THEN 2
    ELSE IF ~StatusIs(c.status, FALSE) THEN 3
    ELSE IF c.reason # PyString(TERMINAL_REASON) THEN 5
    ELSE IF c.message = None \/ ~IsSubstring(s, c.message.chars) THEN 6
    ELSE 0

FailureOf(k) ==
    CASE k = 2 -> "ConditionNotFound"
      [] k = 3 -> "StatusMismatch"
      [] k = 5 -> "ReasonMismatch"
      [] k = 6 -> "MessageMismatch"

\* the f-string argument holding the expected / the actual value of a failure
ExpectedArg(kind) ==
    CASE kind = "ConditionNotFound" -> "cond_type_match"
      [] kind = "StatusMismatch"    -> "cond_status_match"
      [] kind = "ReasonMismatch"    -> "TERMINAL_REASON"
      [] kind = "MessageMismatch"   -> "expected_message"

ActualArg(kind) ==
    CASE kind = "ConditionNotFound" -> "cond"
      [] kind = "StatusMismatch"    -> "cond_status"
      [] kind = "ReasonMismatch"    -> "reason"
      [] kind = "MessageMismatch"   -> "message"

(* ------------------------------ claims --------------------------------- *)

\* C1: when the accessor returns a condition, assert_type_status(ref, t, b)
\* returns normally iff the string form of the condition's status is the
\* string form of b, and signals Status Mismatch otherwise; "Unknown" and a
\* missing status fail for both values of b.
C1_StatusStringCompare ==
    (Done /\ called = "assert_type_status" /\ cond # None) =>
        /\ outcome \in {"Returned", "StatusMismatch"}
        /\ (outcome = "Returned") <=> StatusIs(cond.status, cond_status_match)
        /\ cond.status \in {None, PyString("Unknown")} => outcome = "StatusMismatch"

C1_Witness ==
    /\ Done
    /\ called = "assert_type_status"
    /\ cond_type_match = CONDITION_TYPE_RESOURCE_SYNCED
    /\ cond # None
    /\ cond.status = None
    /\ cond_status_match = FALSE
    /\ outcome = "StatusMismatch"

\* C2: when the accessor returns None, assert_type_status signals Condition
\* Not Found whatever the expected status, and ends there: the status is
\* never compared.
C2_NotFound ==
    (Done /\ called = "assert_type_status" /\ cond = None) =>
        /\ outcome = "ConditionNotFound"
        /\ log = <<Read(cond_type_match), Check("exists")>>

C2_Witness ==
    /\ Done
    /\ called = "assert_type_status"
    /\ cond = None
    /\ cond_status_match = FALSE
    /\ outcome = "ConditionNotFound"

\* C3: on a resource that does not change during the call, assert_terminal
\* returns normally iff "Ready" exists, its status has the string form
\* "False", its reason is TERMINAL_REASON and its message contains the
\* expected substring.
C3_TerminalIff ==
    (Done /\ called = "assert_terminal" /\ updates = 0) =>
        ((outcome = "Returned") <=> TerminalHolds(live["Ready"], expected_message))

C3_Witness ==
    /\ Done
    /\ called = "assert_terminal"
    /\ updates = 0
    /\ outcome = "Returned"
    /\ Len(expected_message) = 1
    /\ Len(live["Ready"].message.chars) = 2
    /\ live["Ready"].message.chars[1] # expected_message[1]

\* C4: a "Ready" condition with status False, the terminal reason and no
\* message makes assert_terminal with a non-empty expected substring fail
\* with Message Mismatch.
C4_MissingMessageIsMismatch ==
    (/\ Done
     /\ called = "assert_terminal"
     /\ tcond # None
     /\ cond # None
     /\ StatusIs(cond.status, FALSE)
     /\ tcond.reason = PyString(TERMINAL_REASON)
     /\ tcond.message = None
     /\ expected_message # <<>>)
        => outcome = "MessageMismatch"

C6_OnlyTestFailures ==
    Done => outcome \in {"Returned"} \cup Failures

\* C7: every failure message includes the expected value, the actual value
\* and the stringified resource reference.
C7_MessageHasAllThree ==
    (Done /\ outcome \in Failures) =>
        {ExpectedArg(outcome), ActualArg(outcome), "ref"} \subseteq Range(failmsg)

\* C7 amended: Condition Not Found names the condition type and the
\* resource reference; the three mismatch failures carry the expected and
\* the actual value and not the resource reference.
C7_MessageContents ==
    (Done /\ outcome \in Failures) =>
        IF outcome = "ConditionNotFound"
          THEN Range(failmsg) = {"cond_type_match", "ref"}
          ELSE /\ {ExpectedArg(outcome), ActualArg(outcome)} \subseteq Range(failmsg)
               /\ "ref" \notin Range(failmsg)

C7_Witness ==
    /\ Done
    /\ outcome = "StatusMismatch"
    /\ called = "assert_terminal"

C9_FirstFailingCheck ==
    (Done /\ called = "assert_terminal") =>
        LET k == FirstFailing(live["Ready"], expected_message)
        IN  IF k = 0
              THEN outcome = "Returned" /\ log = TerminalOrder
              ELSE /\ log = SubSeq(TerminalOrder, 1, k)
                   /\ outcome # "Returned"
                   /\ outcome \in Failures => outcome = FailureOf(k)

C9_Witness ==
    /\ Done
    /\ called = "assert_terminal"
    /\ outcome = "ReasonMismatch"
    /\ tcond.message # None
    /\ ~IsSubstring(expected_message, tcond.message.chars)

\* C10: a normal return of assert_terminal implies that one snapshot of
\* "Ready" read during the call had status False, the terminal reason and a
\* message containing the expected substring, all together.
C10_SingleSnapshot ==
    (Done /\ called = "assert_terminal" /\ outcome = "Returned") =>
        \/ TerminalHolds(cond, expected_message)
        \/ TerminalHolds(tcond, expected_message)

====
